---- MODULE Spec2Model ----
(***************************************************************************)
(* Model of the per-group episode queue of mcp_server/graphiti_mcp_server  *)
(* (episode_queues, queue_workers, add_memory, process_episode_queue) as   *)
(* it runs on one asyncio event loop.  One action is one uninterrupted     *)
(* run of a coroutine between two suspension points.                       *)
(***************************************************************************)
EXTENDS Integers, Sequences, FiniteSets, TLC

\* ---- bounds of the model ----
\* total number of add_memory calls made by clients
MaxCalls == 2

\* number of worker tasks the environment cancels
MaxCancels == 1

\* partition keys used by the callers
Groups == {"g1", "g2"}

\* ---- program state ----
VARIABLES
    graphiti_client,  \* module global: "None" or "Graphiti"
    init_result,      \* outcome of initialize_graphiti: "not_run", "ok" or the exception raised
    episode_queues,   \* dict group_id -> asyncio.Queue
    queue_workers,    \* dict group_id -> bool
    tasks,            \* the process_episode_queue tasks created so far, in creation order
    episodes,         \* the process_episode closures created so far, in submission order
    responses,        \* what each add_memory call returned, in call order
    environ,          \* os.environ: dict of the variables that are set
    last_call,        \* the latest DriverFactory.create_driver call: its arguments and whether falkordb can be imported
    drivers,          \* what each DriverFactory.create_driver call returned or raised, in call order
    last_query,       \* the latest FalkorDriver.execute_query call: backend reply and outcome
    last_config,      \* the latest FalkorDBConfig built: how it was built and the outcome
    falkor_drivers    \* what each FalkorDriver(...) and clone(...) call returned or raised, in call order

queue_vars == <<graphiti_client, init_result, episode_queues, queue_workers, tasks, episodes, responses>>

falkor_vars == <<last_config, falkor_drivers>>

driver_vars == <<environ, last_call, drivers, last_query, last_config, falkor_drivers>>

vars == <<graphiti_client, init_result, episode_queues, queue_workers, tasks, episodes, responses,
          environ, last_call, drivers, last_query, last_config, falkor_drivers>>

\* ---- Python dict ----
EmptyDict == [k \in {} |-> FALSE]

dict_get(d, k, default) == IF k \in DOMAIN d THEN d[k] ELSE default

dict_set(d, k, v) == (k :> v) @@ d

\* ---- asyncio.Queue ----
\* asyncio.Queue() is built without a maxsize
maxsize == 0

asyncio_Queue ==
    [queue |-> <<>>, getters |-> <<>>, putters |-> <<>>, unfinished_tasks |-> 0]

qsize(q) == Len(q.queue)

empty(q) == q.queue = <<>>

\* the full test of a queue built with a capacity of one item
full_capacity_one(q) == qsize(q) >= 1

full(q) == IF maxsize <= 0 THEN FALSE ELSE qsize(q) >= maxsize

\* put_nowait: append the item, count it as unfinished, wake the first waiting getter.
\* woken is the set of tasks whose getter future got its result.
put_nowait(q, item) ==
    [q     |-> [q EXCEPT !.queue = Append(@, item),
                         !.unfinished_tasks = @ + 1,
                         !.getters = IF @ = <<>> THEN @ ELSE Tail(@)],
     woken |-> IF q.getters = <<>> THEN {} ELSE {Head(q.getters)}]

\* a queue that hands out the newest item first
get_nowait_lifo(q) ==
    [item |-> q.queue[Len(q.queue)],
     q    |-> [q EXCEPT !.queue = SubSeq(@, 1, Len(@) - 1)]]

\* a get that reads the head item and leaves it in the queue
get_nowait_peek(q) ==
    [item |-> Head(q.queue), q |-> q]

\* get_nowait: pop the item at the head of the queue.
get_nowait(q) ==
    [item |-> Head(q.queue), q |-> [q EXCEPT !.queue = Tail(@)]]

\* task_done that leaves the count of unfinished tasks as it is
task_done_forgotten(q) == q

task_done(q) == [q EXCEPT !.unfinished_tasks = @ - 1]

\* the getters of q without the future of task t
remove_getter(q, t) ==
    [q EXCEPT !.getters = SelectSeq(@, LAMBDA x : x # t)]

\* a put that resolves the getter future of nobody: the wake-up is lost
wake_lost(tks, woken) == tks

\* ---- tasks ----
wake(tks, woken) ==
    [i \in DOMAIN tks |-> IF i \in woken THEN [tks[i] EXCEPT !.pc = "woken"] ELSE tks[i]]

\* no call has been made yet
NoCall == [called |-> FALSE]

Init ==
    /\ graphiti_client = "None"
    /\ init_result = "not_run"
    /\ episode_queues = EmptyDict
    /\ queue_workers = EmptyDict
    /\ tasks = <<>>
    /\ episodes = <<>>
    /\ responses = <<>>
    /\ environ = EmptyDict
    /\ last_call = NoCall
    /\ drivers = <<>>
    /\ last_query = NoCall
    /\ last_config = NoCall
    /\ falkor_drivers = <<>>

\* ---- initialize_graphiti ----
\* The configuration is an input: the backend selected, whether the Neo4j
\* credentials are all set, whether FALKORDB_URL is set, and whether an LLM
\* client is missing while custom entities are enabled.
initialize_graphiti_outcome(db_type, neo4j_creds, falkor_url, llm_ok) ==
    IF ~llm_ok THEN "ValueError: OPENAI_API_KEY must be set when custom entities are enabled"
    ELSE IF db_type = "neo4j" /\ ~neo4j_creds
    THEN "ValueError: NEO4J_URI, NEO4J_USER, and NEO4J_PASSWORD must be set for Neo4j"
    ELSE IF db_type = "falkordb" /\ ~falkor_url
    THEN "ValueError: FALKORDB_URL must be provided when using FalkorDB"
    ELSE "ok"

initialize_graphiti ==
    /\ init_result = "not_run"
    /\ \E db_type \in {"neo4j", "falkordb"}, neo4j_creds \in BOOLEAN,
          falkor_url \in BOOLEAN, llm_ok \in BOOLEAN :
          LET outcome == initialize_graphiti_outcome(db_type, neo4j_creds, falkor_url, llm_ok)
          IN /\ init_result' = outcome
             /\ graphiti_client' = IF outcome = "ok" THEN "Graphiti" ELSE graphiti_client
    /\ UNCHANGED <<episode_queues, queue_workers, tasks, episodes, responses>>

\* ---- add_memory ----
ErrorResponse(g) ==
    [kind |-> "ErrorResponse", group_id |-> g, episode |-> 0, position |-> 0]

SuccessResponse(g, e, position) ==
    [kind |-> "SuccessResponse", group_id |-> g, episode |-> e, position |-> position]

\* the call is parked inside `await queue.put(...)` and has returned nothing yet
Suspended(g) ==
    [kind |-> "suspended", group_id |-> g, episode |-> 0, position |-> 0]

\* one flag for the whole table: a worker is started only when no key is active
start_worker_global(g) == \A k \in DOMAIN queue_workers : ~queue_workers[k]

\* the test of line 1051: is a worker to be started for group g
start_worker(g) == ~dict_get(queue_workers, g, FALSE)

\* the position taken from the count of unfinished items
reported_position_unfinished(q) == q.unfinished_tasks

\* the position reported in the acknowledgment, read from the queue after the put
reported_position(q) == qsize(q)

\* the number of worker tasks of group g among tks that have stopped
stops_of(tks, g) ==
    Cardinality({t \in DOMAIN tks : tks[t].group_id = g /\ tks[t].pc = "done"})

\* the worker is spawned for the default group instead of the submission's group
create_task_default_group(tks, g) ==
    Append(tks, [group_id |-> "g2", pc |-> "created", process_func |-> 0,
                 stops_seen |-> stops_of(tks, "g2")])

\* the tasks after the submission: create_task appends a task that has not run yet
\* (stops_seen is bookkeeping for the properties: how many workers of the
\* group had already stopped when this one was spawned)
create_task(tks, g) ==
    Append(tks, [group_id |-> g, pc |-> "created", process_func |-> 0,
                 stops_seen |-> stops_of(tks, g)])

\* a new queue is stored for the key at every submission
ensure_queue_always_new(eqs, g) == dict_set(eqs, g, asyncio_Queue)

\* lines 1044-1045: the queue of the key is created if it does not exist
ensure_queue(eqs, g) ==
    IF g \in DOMAIN eqs THEN eqs ELSE dict_set(eqs, g, asyncio_Queue)

\* add_memory that creates the queue of the key before it tests the client
add_memory_queue_first(g) ==
    /\ Len(responses) < MaxCalls
    /\ UNCHANGED <<graphiti_client, init_result, queue_workers>>
    /\ LET eq0 == ensure_queue(episode_queues, g)
       IN IF graphiti_client = "None"
          THEN /\ responses' = Append(responses, ErrorResponse(g))
               /\ episode_queues' = eq0
               /\ UNCHANGED <<tasks, episodes>>
          ELSE LET e   == Len(episodes) + 1
                   put == put_nowait(eq0[g], e)
                   tk1 == wake(tasks, put.woken)
               IN /\ episodes' = Append(episodes, [group_id |-> g, status |-> "queued", worker |-> 0])
                  /\ episode_queues' = [eq0 EXCEPT ![g] = put.q]
                  /\ tasks' = IF start_worker(g) THEN create_task(tk1, g) ELSE tk1
                  /\ responses' = Append(responses, SuccessResponse(g, e, reported_position(put.q)))

add_memory(g) ==
    /\ Len(responses) < MaxCalls
    /\ UNCHANGED <<graphiti_client, init_result, queue_workers>>
    /\ IF graphiti_client = "None"
       THEN /\ responses' = Append(responses, ErrorResponse(g))
            /\ UNCHANGED <<episode_queues, tasks, episodes>>
       ELSE LET eq0 == ensure_queue(episode_queues, g)
            IN IF full(eq0[g])
               THEN /\ episode_queues' = [eq0 EXCEPT ![g].putters = Append(@, Len(responses) + 1)]
                    /\ responses' = Append(responses, Suspended(g))
                    /\ UNCHANGED <<tasks, episodes>>
               ELSE LET e   == Len(episodes) + 1
                        put == put_nowait(eq0[g], e)
                        tk1 == wake(tasks, put.woken)
                    IN /\ episodes' = Append(episodes, [group_id |-> g, status |-> "queued", worker |-> 0])
                       /\ episode_queues' = [eq0 EXCEPT ![g] = put.q]
                       /\ tasks' = IF start_worker(g) THEN create_task(tk1, g) ELSE tk1
                       /\ responses' = Append(responses, SuccessResponse(g, e, reported_position(put.q)))

\* a worker that leaves its loop when it finds the queue empty
queue_get_exit_when_idle(t, eq, eps) ==
    LET g == tasks[t].group_id
    IN IF empty(eq[g])
       THEN /\ episode_queues' = eq
            /\ tasks' = [tasks EXCEPT ![t].pc = "done", ![t].process_func = 0]
            /\ episodes' = eps
       ELSE LET got == get_nowait(eq[g])
            IN /\ episode_queues' = [eq EXCEPT ![g] = got.q]
               /\ tasks' = [tasks EXCEPT ![t].pc = "process_func", ![t].process_func = got.item]
               /\ episodes' = [eps EXCEPT ![got.item].status = "running", ![got.item].worker = t]

\* ---- process_episode_queue ----
\* `await episode_queues[group_id].get()` followed by the start of process_func:
\* on an empty queue the task parks a getter future, otherwise it takes the head
\* item and runs it up to the await of client.add_episode.
\* eq and eps are the queues and episodes as the running step has left them.
queue_get(t, eq, eps) ==
    LET g == tasks[t].group_id
    IN IF empty(eq[g])
       THEN /\ episode_queues' = [eq EXCEPT ![g].getters = Append(@, t)]
            /\ tasks' = [tasks EXCEPT ![t].pc = "get", ![t].process_func = 0]
            /\ episodes' = eps
       ELSE LET got == get_nowait(eq[g])
            IN /\ episode_queues' = [eq EXCEPT ![g] = got.q]
               /\ tasks' = [tasks EXCEPT ![t].pc = "process_func", ![t].process_func = got.item]
               /\ episodes' = [eps EXCEPT ![got.item].status = "running", ![got.item].worker = t]

\* first step of a worker task: mark the key active, enter the loop
process_episode_queue(t) ==
    /\ tasks[t].pc = "created"
    /\ queue_workers' = dict_set(queue_workers, tasks[t].group_id, TRUE)
    /\ queue_get(t, episode_queues, episodes)
    /\ UNCHANGED <<graphiti_client, init_result, responses>>

\* a worker whose getter future was resolved runs again: get() re-tests the queue
queue_get_resume(t) ==
    /\ tasks[t].pc = "woken"
    /\ queue_get(t, episode_queues, episodes)
    /\ UNCHANGED <<graphiti_client, init_result, queue_workers, responses>>

\* a worker whose loop is left when the operation raised
after_process_func_stop_on_error(t, outcome) ==
    LET g == tasks[t].group_id
        e == tasks[t].process_func
    IN IF outcome = "error"
       THEN /\ episode_queues' = [episode_queues EXCEPT ![g] = task_done(@)]
            /\ episodes' = [episodes EXCEPT ![e].status = outcome]
            /\ tasks' = [tasks EXCEPT ![t].pc = "done", ![t].process_func = 0]
            /\ queue_workers' = dict_set(queue_workers, g, FALSE)
       ELSE /\ queue_get(t, [episode_queues EXCEPT ![g] = task_done(@)],
                            [episodes EXCEPT ![e].status = outcome])
            /\ UNCHANGED queue_workers

\* task_done placed in the try body: it is skipped when the operation raised
after_process_func_no_done_on_error(t, outcome) ==
    LET g == tasks[t].group_id
        e == tasks[t].process_func
    IN /\ queue_get(t, IF outcome = "error"
                       THEN episode_queues
                       ELSE [episode_queues EXCEPT ![g] = task_done(@)],
                       [episodes EXCEPT ![e].status = outcome])
       /\ UNCHANGED queue_workers

\* what the worker does after process_func ended with the given outcome
\* ("ok": add_episode returned, "error": add_episode raised and the exception
\* was caught and logged): it stays in the loop.
after_process_func(t, outcome) ==
    LET g == tasks[t].group_id
        e == tasks[t].process_func
    IN /\ queue_get(t, [episode_queues EXCEPT ![g] = task_done(@)],
                       [episodes EXCEPT ![e].status = outcome])
       /\ UNCHANGED queue_workers

\* a worker that rewrites the caller's acknowledgment when the operation raised
process_func_return_surfacing(t) ==
    /\ tasks[t].pc = "process_func"
    /\ \E outcome \in {"ok", "error"} :
          /\ after_process_func(t, outcome)
          /\ responses' =
                [i \in DOMAIN responses |->
                    IF outcome = "error" /\ responses[i].episode = tasks[t].process_func
                    THEN ErrorResponse(responses[i].group_id)
                    ELSE responses[i]]
    /\ UNCHANGED <<graphiti_client, init_result>>

process_func_return(t) ==
    /\ tasks[t].pc = "process_func"
    /\ \E outcome \in {"ok", "error"} : after_process_func(t, outcome)
    /\ UNCHANGED <<graphiti_client, init_result, responses>>

\* the worker tasks that have stopped
stopped == {t \in DOMAIN tasks : tasks[t].pc = "done"}

\* CancelledError caught by the per-operation `except Exception`: a worker
\* cancelled in the middle of an operation goes on with the next one
cancel_swallowed(t) ==
    LET g == tasks[t].group_id
        q == episode_queues[g]
    IN /\ tasks[t].pc \in {"created", "get", "woken", "process_func"}
       /\ Cardinality(stopped) < MaxCancels
       /\ UNCHANGED <<graphiti_client, init_result, responses>>
       /\ CASE tasks[t].pc = "created" ->
                 /\ tasks' = [tasks EXCEPT ![t].pc = "done"]
                 /\ UNCHANGED <<episode_queues, queue_workers, episodes>>
            [] tasks[t].pc = "get" ->
                 /\ episode_queues' = [episode_queues EXCEPT ![g] = remove_getter(q, t)]
                 /\ tasks' = [tasks EXCEPT ![t].pc = "done"]
                 /\ queue_workers' = dict_set(queue_workers, g, FALSE)
                 /\ UNCHANGED episodes
            [] tasks[t].pc = "woken" ->
                 LET next == IF ~empty(q) /\ q.getters # <<>> THEN {Head(q.getters)} ELSE {}
                 IN /\ episode_queues' = [episode_queues EXCEPT ![g].getters =
                                             IF next = {} THEN @ ELSE Tail(@)]
                    /\ tasks' = [wake(tasks, next) EXCEPT ![t].pc = "done"]
                    /\ queue_workers' = dict_set(queue_workers, g, FALSE)
                    /\ UNCHANGED episodes
            [] tasks[t].pc = "process_func" ->
                 /\ queue_get(t, [episode_queues EXCEPT ![g] = task_done(@)],
                                 [episodes EXCEPT ![tasks[t].process_func].status = "cancelled"])
                 /\ UNCHANGED queue_workers

\* ---- cancellation of a worker task (CancelledError thrown at its suspension point) ----
cancel(t) ==
    LET g == tasks[t].group_id
        q == episode_queues[g]
    IN /\ tasks[t].pc \in {"created", "get", "woken", "process_func"}
       /\ Cardinality(stopped) < MaxCancels
       /\ UNCHANGED <<graphiti_client, init_result, responses>>
       /\ CASE tasks[t].pc = "created" ->
                 \* the coroutine never starts: neither line 895 nor the finally runs
                 /\ tasks' = [tasks EXCEPT ![t].pc = "done"]
                 /\ UNCHANGED <<episode_queues, queue_workers, episodes>>
            [] tasks[t].pc = "get" ->
                 /\ episode_queues' = [episode_queues EXCEPT ![g] = remove_getter(q, t)]
                 /\ tasks' = [tasks EXCEPT ![t].pc = "done"]
                 /\ queue_workers' = dict_set(queue_workers, g, FALSE)
                 /\ UNCHANGED episodes
            [] tasks[t].pc = "woken" ->
                 \* Queue.get hands the wake-up over to the next getter
                 LET next == IF ~empty(q) /\ q.getters # <<>> THEN {Head(q.getters)} ELSE {}
                 IN /\ episode_queues' = [episode_queues EXCEPT ![g].getters =
                                             IF next = {} THEN @ ELSE Tail(@)]
                    /\ tasks' = [wake(tasks, next) EXCEPT ![t].pc = "done"]
                    /\ queue_workers' = dict_set(queue_workers, g, FALSE)
                    /\ UNCHANGED episodes
            [] tasks[t].pc = "process_func" ->
                 /\ episodes' = [episodes EXCEPT ![tasks[t].process_func].status = "cancelled"]
                 /\ episode_queues' = [episode_queues EXCEPT ![g] = task_done(@)]
                 /\ tasks' = [tasks EXCEPT ![t].pc = "done", ![t].process_func = 0]
                 /\ queue_workers' = dict_set(queue_workers, g, FALSE)

Next ==
    \/ initialize_graphiti /\ UNCHANGED driver_vars
    \/ \E g \in Groups : add_memory(g) /\ UNCHANGED driver_vars
    \/ \E t \in DOMAIN tasks : process_episode_queue(t) /\ UNCHANGED driver_vars
    \/ \E t \in DOMAIN tasks : queue_get_resume(t) /\ UNCHANGED driver_vars
    \/ \E t \in DOMAIN tasks : process_func_return(t) /\ UNCHANGED driver_vars
    \/ \E t \in DOMAIN tasks : cancel(t) /\ UNCHANGED driver_vars

Spec == Init /\ [][Next]_vars

TypeOK ==
    /\ graphiti_client \in {"None", "Graphiti"}
    /\ DOMAIN episode_queues \subseteq Groups
    /\ DOMAIN queue_workers \subseteq Groups
    /\ \A g \in DOMAIN queue_workers : queue_workers[g] \in BOOLEAN
    /\ \A t \in DOMAIN tasks : tasks[t].pc \in {"created", "get", "woken", "process_func", "done"}
    /\ \A e \in DOMAIN episodes : episodes[e].status \in {"queued", "running", "ok", "error", "cancelled"}
    /\ \A g \in DOMAIN episode_queues : episode_queues[g].unfinished_tasks >= 0

\* ---- fairness ----
\* The event loop runs every ready task: a created worker gets its first step
\* and a woken worker is resumed.  Operations of group "g2" terminate;
\* nothing is assumed about the operations of group "g1", about cancellation
\* or about further submissions.
CallIds == 1..MaxCalls

FairSpec ==
    /\ Spec
    /\ \A t \in CallIds : WF_vars(t \in DOMAIN tasks /\ process_episode_queue(t) /\ UNCHANGED driver_vars)
    /\ \A t \in CallIds : WF_vars(t \in DOMAIN tasks /\ queue_get_resume(t) /\ UNCHANGED driver_vars)
    /\ \A t \in CallIds :
          WF_vars(t \in DOMAIN tasks /\ tasks[t].group_id = "g2" /\ process_func_return(t) /\ UNCHANGED driver_vars)

\* Fair scheduling with every operation terminating: the event loop runs every
\* ready task and every process_func returns (normally or by raising).
\* Nothing is assumed about cancellation or about further submissions.
LiveSpec ==
    /\ Spec
    /\ \A t \in CallIds : WF_vars(t \in DOMAIN tasks /\ process_episode_queue(t) /\ UNCHANGED driver_vars)
    /\ \A t \in CallIds : WF_vars(t \in DOMAIN tasks /\ queue_get_resume(t) /\ UNCHANGED driver_vars)
    /\ \A t \in CallIds : WF_vars(t \in DOMAIN tasks /\ process_func_return(t) /\ UNCHANGED driver_vars)

\* ---- DriverFactory (graphiti_core/driver/factory.py) ----
\* A string whose letters matter is a sequence of one-character strings.
MaxDriverCalls == 2

Upper == <<"A", "B", "C", "D", "E", "F", "G", "H", "I", "J", "K", "L", "M",
           "N", "O", "P", "Q", "R", "S", "T", "U", "V", "W", "X", "Y", "Z">>

Lower == <<"a", "b", "c", "d", "e", "f", "g", "h", "i", "j", "k", "l", "m",
           "n", "o", "p", "q", "r", "s", "t", "u", "v", "w", "x", "y", "z">>

LowerChar(c) ==
    IF \E i \in DOMAIN Upper : Upper[i] = c
    THEN Lower[CHOOSE i \in DOMAIN Upper : Upper[i] = c]
    ELSE c

\* str.lower() without effect
str_lower_missing(s) == s

\* str.lower()
str_lower(s) == [i \in DOMAIN s |-> LowerChar(s[i])]

neo4j == <<"n", "e", "o", "4", "j">>

falkordb == <<"f", "a", "l", "k", "o", "r", "d", "b">>

\* values GRAPHITI_DB_TYPE is given
EnvValues ==
    { neo4j, <<"N", "E", "O", "4", "J">>, <<"N", "e", "o", "4", "j">>,
      falkordb, <<"F", "A", "L", "K", "O", "R", "D", "B">>, <<"F", "a", "l", "k", "o", "r", "D", "B">>,
      <<"i", "n", "v", "a", "l", "i", "d">>, <<>> }

\* argument values: the string "None" stands for Python's None
Uris == {"None", "bolt://localhost:7687"}

Users == {"None", "neo4j"}

Passwords == {"None", "password"}

Databases == {"None", "graph1"}

os_getenv(name, default) == dict_get(environ, name, default)

\* the variable is set, or changed, between two calls
setenv(v) ==
    /\ environ' = dict_set(environ, "GRAPHITI_DB_TYPE", v)
    /\ UNCHANGED <<last_call, drivers, last_query>>

\* the variable is removed
delenv ==
    /\ "GRAPHITI_DB_TYPE" \in DOMAIN environ
    /\ environ' = EmptyDict
    /\ UNCHANGED <<last_call, drivers, last_query>>

NoMessage == [text |-> "", db_type |-> <<>>]

\* neo4j_kwargs / falkor_kwargs: database is passed on only when it is given
database_kwargs(database) ==
    IF database # "None" THEN dict_set(EmptyDict, "database", database) ELSE EmptyDict

Neo4jDriver(uri, user, password, kwargs) ==
    [kind |-> "Neo4jDriver", args |-> <<uri, user, password>>, kwargs |-> kwargs, message |-> NoMessage]

FalkorDriver(kwargs) ==
    [kind |-> "FalkorDriver", args |-> <<>>, kwargs |-> kwargs, message |-> NoMessage]

ValueError(text, db_type) ==
    [kind |-> "ValueError", args |-> <<>>, kwargs |-> EmptyDict,
     message |-> [text |-> text, db_type |-> db_type]]

ImportError(text) ==
    [kind |-> "ImportError", args |-> <<>>, kwargs |-> EmptyDict,
     message |-> [text |-> text, db_type |-> <<>>]]

\* the Neo4j branch without its check of uri
create_driver_result_no_uri_check(uri, user, password, database, importable) ==
    LET db_type == str_lower(os_getenv("GRAPHITI_DB_TYPE", neo4j))
    IN  IF db_type = falkordb
        THEN IF importable
             THEN FalkorDriver(database_kwargs(database))
             ELSE ImportError("FalkorDB driver is not available")
        ELSE IF db_type = neo4j
        THEN Neo4jDriver(uri, user, password, database_kwargs(database))
        ELSE ValueError("Unsupported database type", db_type)

\* what DriverFactory.create_driver returns or raises
create_driver_result(uri, user, password, database, importable) ==
    LET db_type == str_lower(os_getenv("GRAPHITI_DB_TYPE", neo4j))
    IN  IF db_type = falkordb
        THEN IF importable
             THEN FalkorDriver(database_kwargs(database))
             ELSE ImportError("FalkorDB driver is not available")
        ELSE IF db_type = neo4j
        THEN IF uri = "None"
             THEN ValueError("uri must be provided when using Neo4j driver", <<>>)
             ELSE Neo4jDriver(uri, user, password, database_kwargs(database))
        ELSE ValueError("Unsupported database type", db_type)

create_driver(uri, user, password, database, importable) ==
    /\ Len(drivers) < MaxDriverCalls
    /\ last_call' = [called |-> TRUE, uri |-> uri, user |-> user, password |-> password,
                     database |-> database, importable |-> importable]
    /\ drivers' = Append(drivers, create_driver_result(uri, user, password, database, importable))
    /\ UNCHANGED <<environ, last_query>>

FactoryNext ==
    \/ \E v \in EnvValues : setenv(v) /\ UNCHANGED <<queue_vars, falkor_vars>>
    \/ delenv /\ UNCHANGED <<queue_vars, falkor_vars>>
    \/ \E uri \in Uris, user \in Users, password \in Passwords, database \in Databases,
          importable \in BOOLEAN :
          create_driver(uri, user, password, database, importable) /\ UNCHANGED <<queue_vars, falkor_vars>>

FactorySpec == Init /\ [][FactoryNext]_vars

\* ---- FalkorDriver.execute_query (graphiti_core/driver/falkordb_driver.py) ----
MaxCols == 2

MaxRows == 2

MaxRowLen == 2

\* sequences over S of length at most n
SeqUpTo(S, n) == UNION {[1..k -> S] : k \in 0..n}

\* what graph.query replies: column descriptors [type, name] and rows of values
ColumnNames == {"a", "b"}

Values == {"v1", "v2"}

Headers == SeqUpTo({<<1, name>> : name \in ColumnNames}, MaxCols)

ResultSets == SeqUpTo(SeqUpTo(Values, MaxRowLen), MaxRows)

\* texts of the exceptions graph.query raises, word by word
ErrorTexts ==
    { <<"Attribute", "name", "is", "already", "indexed">>,
      <<"already", "indexed">>,
      <<"indexed", "already">>,
      <<"already", "exists">>,
      <<"syntax", "error">> }

Replies ==
    [raised : {FALSE}, error : {<<>>}, header : Headers, result_set : ResultSets]
        \cup [raised : {TRUE}, error : ErrorTexts, header : {<<>>}, result_set : {<<>>}]

\* a test for the words of needle anywhere in text, in any order
contains_in_any_order(text, needle) ==
    \A k \in DOMAIN needle : \E i \in DOMAIN text : text[i] = needle[k]

\* Python's `needle in text`
contains(text, needle) ==
    \E i \in 0..(Len(text) - Len(needle)) :
        \A k \in DOMAIN needle : text[i + k] = needle[k]

\* one row of result_set as a dict keyed by the header names
record_of(header, row) ==
    [field_name \in {header[i] : i \in DOMAIN header} |->
        LET i == CHOOSE j \in DOMAIN header :
                    /\ header[j] = field_name
                    /\ \A k \in DOMAIN header : header[k] = field_name => k <= j
        IN  IF i <= Len(row) THEN row[i] ELSE "None"]

\* what FalkorDriver.execute_query returns or raises for a reply of the backend
execute_query_result(reply) ==
    IF reply.raised
    THEN IF contains(reply.error, <<"already", "indexed">>)
         THEN [type |-> "NoneType"]
         ELSE [type |-> "raise", error |-> reply.error]
    ELSE LET header == [i \in DOMAIN reply.header |-> reply.header[i][2]]
             records == [r \in DOMAIN reply.result_set |-> record_of(header, reply.result_set[r])]
         IN  [type |-> "tuple", records |-> records, header |-> header, summary |-> "None"]

\* a behaviour follows one call: its outcome depends on nothing but the
\* reply of the backend to it
execute_query(reply) ==
    /\ ~last_query.called
    /\ last_query' = [called |-> TRUE, reply |-> reply, outcome |-> execute_query_result(reply)]
    /\ UNCHANGED <<environ, last_call, drivers>>

QueryNext ==
    /\ ~last_query.called
    /\ \E reply \in Replies : execute_query(reply) /\ UNCHANGED <<queue_vars, falkor_vars>>

QuerySpec == Init /\ [][QueryNext]_vars

\* ---- FalkorDBConfig (graphiti_core/driver/falkordb_driver.py) ----
\* A Python str is a sequence of one-character strings; an optional value
\* (Python's None or a value) is the empty sequence or a sequence of one value.
None == <<>>

Some(v) == <<v>>

Digits == <<"0", "1", "2", "3", "4", "5", "6", "7", "8", "9">>

isdigit(s) == s # <<>> /\ \A i \in DOMAIN s : \E d \in DOMAIN Digits : Digits[d] = s[i]

RECURSIVE digits_value(_)
digits_value(s) ==
    IF s = <<>> THEN 0
    ELSE digits_value(SubSeq(s, 1, Len(s) - 1)) * 10
            + (CHOOSE d \in DOMAIN Digits : Digits[d] = s[Len(s)]) - 1

\* int(s) for a str s: an optional sign followed by digits, or ValueError
int(s) ==
    IF isdigit(s) THEN [ok |-> TRUE, value |-> digits_value(s)]
    ELSE IF s # <<>> /\ s[1] = "-" /\ isdigit(Tail(s)) THEN [ok |-> TRUE, value |-> 0 - digits_value(Tail(s))]
    ELSE IF s # <<>> /\ s[1] = "+" /\ isdigit(Tail(s)) THEN [ok |-> TRUE, value |-> digits_value(Tail(s))]
    ELSE [ok |-> FALSE, value |-> 0]

RECURSIVE str_of_nat(_)
str_of_nat(n) ==
    IF n < 10 THEN <<Digits[n + 1]>>
    ELSE Append(str_of_nat(n \div 10), Digits[(n % 10) + 1])

\* str(n) for an int n
str(n) == IF n < 0 THEN <<"-">> \o str_of_nat(0 - n) ELSE str_of_nat(n)

\* s.find(c): position of the first c in s, 0 when there is none
find(s, c) ==
    IF \E i \in DOMAIN s : s[i] = c
    THEN CHOOSE i \in DOMAIN s : s[i] = c /\ \A k \in 1..(i - 1) : s[k] # c
    ELSE 0

\* s.rfind(c): position of the last c in s, 0 when there is none
rfind(s, c) ==
    IF \E i \in DOMAIN s : s[i] = c
    THEN CHOOSE i \in DOMAIN s : s[i] = c /\ \A k \in (i + 1)..Len(s) : s[k] # c
    ELSE 0

startswith(s, prefix) == Len(s) >= Len(prefix) /\ SubSeq(s, 1, Len(prefix)) = prefix

\* characters of a URL scheme besides letters and digits
scheme_punctuation == {"+", "-", "."}

isalpha(c) == \E k \in DOMAIN Upper : c = Upper[k] \/ c = Lower[k]

\* urllib.parse.urlparse(url), as far as scheme, netloc and path
urlparse(url) ==
    LET colon == find(url, ":")
        has_scheme ==
            /\ colon > 1
            /\ isalpha(url[1])
            /\ \A k \in 1..(colon - 1) :
                  isalpha(url[k]) \/ isdigit(<<url[k]>>) \/ url[k] \in scheme_punctuation
        scheme == IF has_scheme THEN str_lower(SubSeq(url, 1, colon - 1)) ELSE <<>>
        rest == IF has_scheme THEN SubSeq(url, colon + 1, Len(url)) ELSE url
        has_netloc == startswith(rest, <<"/", "/">>)
        after == IF has_netloc THEN SubSeq(rest, 3, Len(rest)) ELSE rest
        delims == {i \in DOMAIN after : after[i] \in {"/", "?", "#"}}
        delim == IF has_netloc
                 THEN IF delims = {} THEN Len(after) + 1
                      ELSE CHOOSE i \in delims : \A k \in delims : i <= k
                 ELSE 1
        netloc == SubSeq(after, 1, delim - 1)
        tail == SubSeq(after, delim, Len(after))
        ends == {i \in DOMAIN tail : tail[i] \in {"?", "#"}}
        path == IF ends = {} THEN tail
                ELSE SubSeq(tail, 1, (CHOOSE i \in ends : \A k \in ends : i <= k) - 1)
    IN  [scheme |-> scheme, netloc |-> netloc, path |-> path]

\* netloc.rpartition('@'): userinfo (None without '@') and hostinfo
userinfo(netloc) ==
    LET at == rfind(netloc, "@")
    IN  IF at = 0 THEN None ELSE Some(SubSeq(netloc, 1, at - 1))

hostinfo(netloc) == SubSeq(netloc, rfind(netloc, "@") + 1, Len(netloc))

\* ParseResult.hostname
hostname(parsed) ==
    LET info == hostinfo(parsed.netloc)
        colon == find(info, ":")
        name == IF colon = 0 THEN info ELSE SubSeq(info, 1, colon - 1)
    IN  IF name = <<>> THEN None ELSE Some(str_lower(name))

\* ParseResult.port: None, a port in 0..65535, or ValueError
port_of(parsed) ==
    LET info == hostinfo(parsed.netloc)
        colon == find(info, ":")
        text == IF colon = 0 THEN <<>> ELSE SubSeq(info, colon + 1, Len(info))
    IN  IF text = <<>> THEN [ok |-> TRUE, value |-> None]
        ELSE IF ~isdigit(text) THEN [ok |-> FALSE, value |-> None]
        ELSE IF digits_value(text) > 65535 THEN [ok |-> FALSE, value |-> None]
        ELSE [ok |-> TRUE, value |-> Some(digits_value(text))]

\* ParseResult.password
password_of(parsed) ==
    LET info == userinfo(parsed.netloc)
    IN  IF info = None THEN None
        ELSE IF find(info[1], ":") = 0 THEN None
        ELSE Some(SubSeq(info[1], find(info[1], ":") + 1, Len(info[1])))

redis == <<"r", "e", "d", "i", "s">>

localhost == <<"l", "o", "c", "a", "l", "h", "o", "s", "t">>

default_db == <<"d", "e", "f", "a", "u", "l", "t", "_", "d", "b">>

\* what a construction raises
Raised(kind) == [ok |-> FALSE, error |-> kind]

validate_port(v) == 1 <= v /\ v <= 65535

\* the check of the database number accepts every number
validate_database_missing(v) == TRUE

validate_database(v) == ~(v < 0)

\* the characters of s all lie outside the set excluded
none_of(s, excluded) == \A i \in DOMAIN s : s[i] \notin excluded

\* redis_url_pattern: the text after 'redis://' splits into an optional
\* 'user:password@', an optional host (or ':' and digits), an optional
\* ':port' and an optional '/db'
redis_url_pattern_match(v) ==
    /\ startswith(v, redis \o <<":", "/", "/">>)
    /\ LET r == SubSeq(v, Len(redis) + 4, Len(v))
           n == Len(r)
       IN  \E a \in 0..n : \E b \in a..n : \E c \in b..n :
              LET u == SubSeq(r, 1, a)
                  h == SubSeq(r, a + 1, b)
                  p == SubSeq(r, b + 1, c)
                  d == SubSeq(r, c + 1, n)
              IN  /\ \/ u = <<>>
                     \/ /\ u[Len(u)] = "@"
                        /\ \E k \in 0..(Len(u) - 1) :
                              /\ none_of(SubSeq(u, 1, k), {":", "/", "@"})
                              /\ LET t == SubSeq(u, k + 1, Len(u) - 1)
                                 IN  \/ none_of(t, {"@", "/"})
                                     \/ t # <<>> /\ t[1] = ":" /\ none_of(Tail(t), {"@", "/"})
                  /\ \/ h = <<>>
                     \/ none_of(h, {":", "/", "@"})
                     \/ h[1] = ":" /\ (Tail(h) = <<>> \/ isdigit(Tail(h)))
                  /\ \/ p = <<>>
                     \/ p[1] = ":" /\ isdigit(Tail(p))
                  /\ \/ d = <<>>
                     \/ d[1] = "/" /\ isdigit(Tail(d))

\* v.strip() is empty
isblank(v) == \A i \in DOMAIN v : v[i] = " "

validate_connection_string(v) ==
    \/ v = None
    \/ /\ ~isblank(v[1])
       /\ startswith(v[1], redis \o <<":", "/", "/">>)
       /\ v[1] # redis \o <<":", "/", "/">>
       /\ redis_url_pattern_match(v[1])

\* FalkorDBConfig(host=..., port=..., database=..., password=..., connection_string=...)
FalkorDBConfig(host, port, database, password, connection_string) ==
    IF validate_port(port) /\ validate_database(database) /\ validate_connection_string(connection_string)
    THEN [ok |-> TRUE, host |-> host, port |-> port, database |-> database,
          password |-> password, connection_string |-> connection_string]
    ELSE Raised("ValidationError")

\* FalkorDBConfig.from_connection_string
from_connection_string(connection_string) ==
    LET build(parsed) ==
            LET host == IF hostname(parsed) = None THEN localhost ELSE hostname(parsed)[1]
                port == IF port_of(parsed).value = None \/ port_of(parsed).value = Some(0)
                        THEN 6379 ELSE port_of(parsed).value[1]
                db_str == SubSeq(parsed.path, 2, Len(parsed.path))
                database == IF Len(parsed.path) > 1 THEN int(db_str).value ELSE 0
            IN  IF connection_string = <<>> THEN Raised("ValueError")
                ELSE IF parsed.scheme # redis THEN Raised("ValueError")
                ELSE IF ~port_of(parsed).ok THEN Raised("ValueError")
                ELSE IF Len(parsed.path) > 1 /\ ~int(db_str).ok THEN Raised("ValueError")
                ELSE FalkorDBConfig(host, port, database, password_of(parsed), Some(connection_string))
    IN  build(urlparse(connection_string))

\* os.getenv(name): None when the variable is unset
os_getenv_optional(name) == IF name \in DOMAIN environ THEN Some(environ[name]) ELSE None

\* the individual variables are read although a connection string is set
from_env_ignoring_connection_string ==
    LET port == int(os_getenv("FALKORDB_PORT", str(6379)))
        database == int(os_getenv("FALKORDB_DATABASE", str(0)))
    IN  IF ~port.ok \/ ~database.ok THEN Raised("ValueError")
        ELSE FalkorDBConfig(os_getenv("FALKORDB_HOST", localhost), port.value, database.value,
                            os_getenv_optional("FALKORDB_PASSWORD"), None)

\* FalkorDBConfig.from_env
from_env ==
    LET connection_string == os_getenv_optional("FALKORDB_CONNECTION_STRING")
        port == int(os_getenv("FALKORDB_PORT", str(6379)))
        database == int(os_getenv("FALKORDB_DATABASE", str(0)))
    IN  IF connection_string # None /\ connection_string[1] # <<>>
        THEN from_connection_string(connection_string[1])
        ELSE IF ~port.ok \/ ~database.ok THEN Raised("ValueError")
        ELSE FalkorDBConfig(os_getenv("FALKORDB_HOST", localhost), port.value, database.value,
                            os_getenv_optional("FALKORDB_PASSWORD"), None)

\* FalkorDBConfig.get_client_kwargs
get_client_kwargs(config) ==
    LET kwargs == dict_set(dict_set(EmptyDict, "host", config.host), "port", config.port)
    IN  IF config.password # None /\ config.password[1] # <<>>
        THEN dict_set(kwargs, "password", config.password[1])
        ELSE kwargs

\* FalkorDBConfig.get_database_name
get_database_name(config) == IF config.database = 0 THEN default_db ELSE str(config.database)

\* values the FALKORDB_* variables are given
ConnectionStrings ==
    { <<"r", "e", "d", "i", "s", ":", "/", "/", "H", "1", ":", "6", "3", "8", "0", "/", "1">>,
      <<"r", "e", "d", "i", "s", ":", "/", "/", ":", "p", "w", "1", "@", "h", "2">>,
      <<"r", "e", "d", "i", "s", ":", "/", "/", "h", "2", ":", "0", "/", "1">>,
      <<"r", "e", "d", "i", "s", ":", "/", "/", "h", "2", ":", "7", "0", "0", "0", "0">>,
      <<"r", "e", "d", "i", "s", ":", "/", "/", "h", "2", ":", "1", "/", "-", "1">> }

FalkorEnvNames ==
    {"FALKORDB_HOST", "FALKORDB_PORT", "FALKORDB_DATABASE", "FALKORDB_PASSWORD", "FALKORDB_CONNECTION_STRING"}

ConfigEnvValues(name) ==
    CASE name = "FALKORDB_HOST" -> {<<"h", "3">>}
      [] name = "FALKORDB_PORT" -> {<<"7", "7", "7", "7">>, <<"0">>, <<"x">>}
      [] name = "FALKORDB_DATABASE" -> {<<"2">>, <<"-", "1">>}
      [] name = "FALKORDB_PASSWORD" -> {<<"p", "w", "3">>}
      [] name = "FALKORDB_CONNECTION_STRING" -> ConnectionStrings \cup {<<>>}

\* a variable is set
setenv_falkordb(name, v) ==
    /\ environ' = dict_set(environ, name, v)
    /\ UNCHANGED <<last_call, drivers, last_query, last_config, falkor_drivers>>

\* a variable is removed
delenv_falkordb(name) ==
    /\ name \in DOMAIN environ
    /\ environ' = [k \in DOMAIN environ \ {name} |-> environ[k]]
    /\ UNCHANGED <<last_call, drivers, last_query, last_config, falkor_drivers>>

\* explicit values a config is built from
ConfigHosts == {<<"h", "4">>}

ConfigPorts == {0, 1, 65535, 65536}

ConfigDatabases == {0 - 1, 0, 3}

ConfigPasswords == {None, Some(<<"p", "w", "4">>)}

\* config = FalkorDBConfig(...)
new_config(host, port, database, password, connection_string) ==
    /\ last_config' = [called |-> TRUE, how |-> "FalkorDBConfig",
                       port |-> port, database |-> database,
                       outcome |-> FalkorDBConfig(host, port, database, password, connection_string)]
    /\ UNCHANGED <<environ, last_call, drivers, last_query, falkor_drivers>>

\* config = FalkorDBConfig.from_connection_string(...)
new_config_from_connection_string(connection_string) ==
    /\ last_config' = [called |-> TRUE, how |-> "from_connection_string",
                       port |-> 0, database |-> 0,
                       outcome |-> from_connection_string(connection_string)]
    /\ UNCHANGED <<environ, last_call, drivers, last_query, falkor_drivers>>

\* config = FalkorDBConfig.from_env()
new_config_from_env ==
    /\ last_config' = [called |-> TRUE, how |-> "from_env", port |-> 0, database |-> 0,
                       outcome |-> from_env]
    /\ UNCHANGED <<environ, last_call, drivers, last_query, falkor_drivers>>

ConfigNext ==
    \/ \E name \in FalkorEnvNames : \E v \in ConfigEnvValues(name) :
          setenv_falkordb(name, v) /\ UNCHANGED queue_vars
    \/ \E name \in FalkorEnvNames : delenv_falkordb(name) /\ UNCHANGED queue_vars
    \/ \E host \in ConfigHosts, port \in ConfigPorts, database \in ConfigDatabases,
          password \in ConfigPasswords, connection_string \in {None} :
          new_config(host, port, database, password, connection_string) /\ UNCHANGED queue_vars
    \/ \E connection_string \in ConnectionStrings :
          new_config_from_connection_string(connection_string) /\ UNCHANGED queue_vars
    \/ new_config_from_env /\ UNCHANGED queue_vars

ConfigSpec == Init /\ [][ConfigNext]_vars

\* ---- FalkorDriver.__init__ and clone (graphiti_core/driver/falkordb_driver.py) ----
MaxFalkorDrivers == 1

MaxClones == 1

\* falkordb.asyncio.FalkorDB(**connection_params): a new client object; id tells the objects apart
FalkorDB(id, connection_params) == [id |-> id, kwargs |-> connection_params]

\* connection_params of FalkorDriver.__init__: the values of config overridden by the direct arguments
connection_params(config, host, port, username, password) ==
    LET p0 == get_client_kwargs(config)
        p1 == IF host # None THEN dict_set(p0, "host", host[1]) ELSE p0
        p2 == IF port # None THEN dict_set(p1, "port", port[1]) ELSE p1
        p3 == IF password # None THEN dict_set(p2, "password", password[1]) ELSE p2
    IN  IF username # None /\ "password" \notin DOMAIN p3
        THEN dict_set(p3, "password", username[1])
        ELSE p3

\* FalkorDriver(host, port, username, password, falkor_db, database, config):
\* the object built (client and _database) or the exception raised;
\* id is the identity a client created by this call gets
FalkorDriver_init(id, host, port, username, password, falkor_db, database, config) ==
    IF falkor_db # None
    THEN [ok |-> TRUE, client |-> falkor_db[1],
          database |-> IF database # None /\ database[1] # <<>> THEN database[1] ELSE default_db]
    ELSE LET build(cfg) ==
                 IF ~cfg.ok THEN Raised("ValueError")
                 ELSE [ok |-> TRUE,
                       client |-> FalkorDB(id, connection_params(cfg, host, port, username, password)),
                       database |-> IF database # None THEN database[1] ELSE get_database_name(cfg)]
         IN  build(IF config = None THEN from_env ELSE config[1])

\* the clone is given a client of its own
clone_result_new_client(id, self, database) ==
    FalkorDriver_init(id, None, None, None, None, Some(FalkorDB(id, self.client.kwargs)), Some(database), None)

\* FalkorDriver.clone
clone_result(id, self, database) ==
    FalkorDriver_init(id, None, None, None, None, Some(self.client), Some(database), None)

\* values of the FALKORDB_* variables while drivers are built
DriverEnvValues(name) ==
    CASE name = "FALKORDB_HOST" -> {<<"h", "3">>}
      [] name = "FALKORDB_PORT" -> {<<"7", "7", "7", "7">>, <<"0">>}
      [] name = "FALKORDB_DATABASE" -> {<<"2">>}
      [] name = "FALKORDB_PASSWORD" -> {<<"p", "w", "3">>}
      [] name = "FALKORDB_CONNECTION_STRING" -> {}

\* arguments the constructor is given
DirectHosts == {None, Some(<<"h", "0">>)}

DirectPorts == {None, Some(8888)}

DirectUsernames == {None, Some(<<"u", "0">>)}

DirectPasswords == {None, Some(<<"p", "w", "0">>)}

DirectDatabases == {None, Some(<<"d", "b", "0">>)}

\* a client built by the caller
PrebuiltClients == {None, Some(FalkorDB(0, EmptyDict))}

\* config instances the caller built: one with every field given, one with defaults and no password
ConfigInstances ==
    {None, Some(FalkorDBConfig(<<"h", "4">>, 7000, 3, Some(<<"p", "w", "4">>), None)),
     Some(FalkorDBConfig(localhost, 6379, 0, None, None))}

\* driver = FalkorDriver(...)
new_falkor_driver(host, port, username, password, falkor_db, database, config) ==
    /\ Len(falkor_drivers) < MaxFalkorDrivers
    /\ last_call' = [called |-> TRUE, what |-> "FalkorDriver", host |-> host, port |-> port,
                     username |-> username, password |-> password, falkor_db |-> falkor_db,
                     database |-> database, config |-> config, self |-> 0]
    /\ falkor_drivers' = Append(falkor_drivers,
          FalkorDriver_init(Len(falkor_drivers) + 1, host, port, username, password, falkor_db, database, config))
    /\ UNCHANGED <<environ, drivers, last_query, last_config>>

\* cloned = falkor_drivers[self].clone(database)
clone(self, database) ==
    /\ Len(falkor_drivers) < MaxFalkorDrivers + MaxClones
    /\ falkor_drivers[self].ok
    /\ last_call' = [called |-> TRUE, what |-> "clone", host |-> None, port |-> None,
                     username |-> None, password |-> None, falkor_db |-> None,
                     database |-> Some(database), config |-> None, self |-> self]
    /\ falkor_drivers' = Append(falkor_drivers,
          clone_result(Len(falkor_drivers) + 1, falkor_drivers[self], database))
    /\ UNCHANGED <<environ, drivers, last_query, last_config>>

\* database names a clone is asked for
CloneDatabases == {<<"d", "b", "0">>, <<"d", "b", "9">>, <<>>}

FalkorNext ==
    \/ \E name \in FalkorEnvNames : \E v \in DriverEnvValues(name) :
          setenv_falkordb(name, v) /\ UNCHANGED queue_vars
    \/ \E name \in FalkorEnvNames : delenv_falkordb(name) /\ UNCHANGED queue_vars
    \/ \E host \in DirectHosts, port \in DirectPorts, username \in DirectUsernames,
          password \in DirectPasswords, falkor_db \in PrebuiltClients,
          database \in DirectDatabases, config \in ConfigInstances :
          new_falkor_driver(host, port, username, password, falkor_db, database, config)
              /\ UNCHANGED queue_vars

FalkorSpec == Init /\ [][FalkorNext]_vars

\* drivers built as the callers of clone build them, and their clones
CloneNext ==
    \/ \E name \in {"FALKORDB_DATABASE", "FALKORDB_HOST"} : \E v \in DriverEnvValues(name) :
          setenv_falkordb(name, v) /\ UNCHANGED queue_vars
    \/ \E host \in DirectHosts, falkor_db \in PrebuiltClients, database \in DirectDatabases :
          new_falkor_driver(host, None, None, None, falkor_db, database, None)
              /\ UNCHANGED queue_vars
    \/ \E self \in DOMAIN falkor_drivers : \E database \in CloneDatabases :
          clone(self, database) /\ UNCHANGED queue_vars

CloneSpec == Init /\ [][CloneNext]_vars

\* ---- vocabulary of the properties ----
finished(e) == episodes[e].status \in {"ok", "error", "cancelled"}

started(e) == episodes[e].status # "queued"

same_group(a, b) == episodes[a].group_id = episodes[b].group_id

\* the worker tasks of group g that were spawned and have not stopped
workers(g) == {t \in DOMAIN tasks : tasks[t].group_id = g /\ tasks[t].pc # "done"}

\* the episodes submitted for group g
submitted(g) == {e \in DOMAIN episodes : episodes[e].group_id = g}

\* an add_memory call returned a SuccessResponse in this step
accepted_step ==
    /\ Len(responses') = Len(responses) + 1
    /\ responses'[Len(responses')].kind = "SuccessResponse"

\* C1: for one group_id, operations never overlap and run in submission order:
\* an episode submitted later has not begun while an earlier one of the same
\* group has not finished its turn.
C1_SequentialPerGroup ==
    \A a, b \in DOMAIN episodes :
        (a < b /\ same_group(a, b) /\ started(b)) => finished(a)

\* C2: at most one worker loop (spawned and not yet stopped) per group_id.
C2_SingleWorker ==
    \A g \in Groups : Cardinality(workers(g)) <= 1

\* C3: when add_memory returns an acknowledgment for a group_id, the key is
\* marked active in queue_workers.
C3_MarkedActiveOnReturn ==
    [][accepted_step =>
          dict_get(queue_workers', responses'[Len(responses')].group_id, FALSE)]_vars

\* C4: per group_id, operations are dequeued and begin executing in the order
\* of their submission: a started episode has no earlier episode of its group
\* still waiting in the queue.
C4_FifoStartOrder ==
    \A a, b \in DOMAIN episodes :
        (a < b /\ same_group(a, b) /\ started(b)) => started(a)

C4_Witness ==
    \E a, b \in DOMAIN episodes :
        /\ a < b /\ same_group(a, b)
        /\ episodes[b].status = "running"
        /\ started(a)

\* C5: when a queued operation raises, the worker that ran it stays in its
\* loop with the key still marked as before, nothing is dropped from the
\* queue, and the operation queued behind it (if any) is the next one started
\* by the same worker.
C5_FailureIsolation ==
    [][\A t \in DOMAIN tasks :
          (/\ tasks[t].pc = "process_func"
           /\ episodes[tasks[t].process_func].status = "running"
           /\ episodes'[tasks[t].process_func].status = "error")
          => LET g == tasks[t].group_id
                 q == episode_queues[g].queue
             IN /\ tasks'[t].pc # "done"
                /\ queue_workers' = queue_workers
                /\ IF q = <<>>
                   THEN /\ tasks'[t].pc = "get"
                        /\ episode_queues'[g].queue = <<>>
                   ELSE /\ tasks'[t].pc = "process_func"
                        /\ tasks'[t].process_func = Head(q)
                        /\ episodes'[Head(q)].status = "running"
                        /\ episode_queues'[g].queue = Tail(q)]_vars

C5_Witness ==
    \E a, b \in DOMAIN episodes :
        /\ a < b /\ same_group(a, b)
        /\ episodes[a].status = "error"
        /\ episodes[b].status = "ok"
        /\ episodes[a].worker = episodes[b].worker
        /\ tasks[episodes[a].worker].pc = "get"

\* C6: operations of "g2" are not held back by "g1": whatever the operations
\* of "g1" do (they may run forever), an operation queued for "g2" is
\* eventually started, unless a worker of "g2" was cancelled.
C6_OtherGroupProgress ==
    \A e \in CallIds :
        (e \in DOMAIN episodes /\ episodes[e].group_id = "g2" /\ ~started(e))
        ~> \/ e \in DOMAIN episodes /\ started(e)
           \/ \E t \in stopped : tasks[t].group_id = "g2"

\* an operation of "g2" is started while an operation of "g1" is still executing
C6_Witness ==
    \E a, b \in DOMAIN episodes :
        /\ a < b
        /\ episodes[a].group_id = "g1" /\ episodes[a].status = "running"
        /\ episodes[b].group_id = "g2" /\ episodes[b].status = "running"

\* C7: add_memory never suspends: no call is parked in the put, and every
\* operation has its acknowledgment as soon as it is in the queue, whether or
\* not it has started.
C7_NonBlocking ==
    /\ \A i \in DOMAIN responses : responses[i].kind # "suspended"
    /\ \A g \in DOMAIN episode_queues : episode_queues[g].putters = <<>>
    /\ \A e \in DOMAIN episodes :
          \E i \in DOMAIN responses :
              responses[i].kind = "SuccessResponse" /\ responses[i].episode = e

\* acknowledged while the key's worker is busy inside another operation
C7_Witness ==
    \E a, b \in DOMAIN episodes, i \in DOMAIN responses :
        /\ a < b /\ same_group(a, b)
        /\ episodes[a].status = "running"
        /\ episodes[b].status = "queued"
        /\ responses[i].kind = "SuccessResponse" /\ responses[i].episode = b
        /\ Cardinality(workers(episodes[a].group_id)) = 1

\* C8: the position in the acknowledgment is the number of operations of the
\* key that are enqueued and not yet dequeued when add_memory returns, the
\* new one included, hence at least 1.
C8_PositionIsQueueDepth ==
    [][accepted_step =>
          LET r == responses'[Len(responses')]
          IN /\ r.position =
                  Cardinality({e \in DOMAIN episodes' :
                                  /\ episodes'[e].group_id = r.group_id
                                  /\ episodes'[e].status = "queued"})
             /\ r.position >= 1
             /\ episodes'[r.episode].status = "queued"]_vars

\* position 1 was reported although an earlier operation of the key is unfinished
C8_Witness ==
    \E a, b \in DOMAIN episodes, i \in DOMAIN responses :
        /\ a < b /\ same_group(a, b)
        /\ episodes[a].status = "running"
        /\ episodes[b].status = "queued"
        /\ responses[i].episode = b
        /\ responses[i].position = 1

\* C9: the acknowledgment is fixed when add_memory returns, while the outcome
\* of the operation is still open, and no later step changes it: whatever the
\* operation does afterwards, its submitter holds the same SuccessResponse.
C9_FireAndForget ==
    /\ [][\A i \in DOMAIN responses : responses'[i] = responses[i]]_vars
    /\ [](\A e \in DOMAIN episodes :
             \E i \in DOMAIN responses :
                 /\ responses[i].kind = "SuccessResponse"
                 /\ responses[i].episode = e)

C9_Witness ==
    \E a, b \in DOMAIN episodes, i, j \in DOMAIN responses :
        /\ episodes[a].status = "error"
        /\ episodes[b].status = "ok"
        /\ responses[i].episode = a /\ responses[i].kind = "SuccessResponse"
        /\ responses[j].episode = b /\ responses[j].kind = "SuccessResponse"

\* C10: a group_id without any submission has no worker task, no active flag
\* and no queue.
C10_LazyWorkerCreation ==
    \A g \in Groups :
        submitted(g) = {} =>
            /\ {t \in DOMAIN tasks : tasks[t].group_id = g} = {}
            /\ g \notin DOMAIN queue_workers
            /\ g \notin DOMAIN episode_queues

C10_Witness ==
    /\ submitted("g2") = {}
    /\ workers("g1") # {}
    /\ dict_get(queue_workers, "g1", FALSE)

\* the worker tasks of group g that have stopped
stopped_of(g) == {t \in stopped : tasks[t].group_id = g}

\* C11: under fair scheduling with terminating operations, every operation
\* accepted by add_memory is eventually dequeued and executed, unless a worker
\* of its group_id was cancelled.
C11_NoOperationDropped ==
    \A e \in CallIds : \A g \in Groups :
        (e \in DOMAIN episodes /\ episodes[e].group_id = g /\ ~started(e))
        ~> \/ e \in DOMAIN episodes /\ started(e)
           \/ stopped_of(g) # {}

\* two operations of one key, the second accepted behind the first, both executed
C11_Witness ==
    \E a, b \in DOMAIN episodes, i \in DOMAIN responses :
        /\ a < b /\ same_group(a, b)
        /\ responses[i].episode = b /\ responses[i].position = 2
        /\ episodes[a].status \in {"ok", "error"}
        /\ episodes[b].status \in {"ok", "error"}
        /\ stopped = {}

\* the flag of group g in queue_workers
active(g) == dict_get(queue_workers, g, FALSE)

\* task t dequeues and starts episode e in this step
starts(t, e) ==
    /\ episodes[e].status = "queued"
    /\ episodes'[e].status = "running"
    /\ episodes'[e].worker = t

\* C12: once a worker of a group_id has stopped and the flag is inactive, the
\* next submission for the key spawns one fresh worker, and the operations
\* left in the queue and the new one are executed by a worker spawned after
\* the stop, in FIFO order.
C12_SelfHealing ==
    [][\A g \in Groups :
          (stopped_of(g) # {} /\ ~active(g)) =>
              /\ (accepted_step /\ responses'[Len(responses')].group_id = g) =>
                     /\ Len(tasks') = Len(tasks) + 1
                     /\ tasks'[Len(tasks')].group_id = g
                     /\ tasks'[Len(tasks')].pc = "created"
              /\ \A t \in DOMAIN tasks : \A e \in DOMAIN episodes :
                     (episodes[e].group_id = g /\ starts(t, e)) =>
                         /\ tasks[t].stops_seen >= 1
                         /\ e = Head(episode_queues[g].queue)]_vars

\* the worker task t is cancelled in this step
cancelled_step(t) ==
    \/ tasks[t].pc \in {"get", "woken"} /\ tasks'[t].pc = "done"
    \/ /\ tasks[t].pc = "process_func"
       /\ episodes'[tasks[t].process_func].status = "cancelled"

\* C13: a worker cancelled while parked on the empty queue or in the middle of
\* an operation stops: its loop ends, the flag of its key is reset to false,
\* the operations still in the queue stay there unchanged, and a stopped
\* worker never dequeues or executes anything again.
C13_CancellationCleanStop ==
    [][\A t \in DOMAIN tasks :
          LET g == tasks[t].group_id
          IN /\ cancelled_step(t) =>
                   /\ tasks'[t].pc = "done"
                   /\ ~dict_get(queue_workers', g, FALSE)
                   /\ episode_queues'[g].queue = episode_queues[g].queue
                   /\ \A e \in DOMAIN episodes : ~starts(t, e)
             /\ tasks[t].pc = "done" =>
                   /\ tasks'[t] = tasks[t]
                   /\ \A e \in DOMAIN episodes : ~starts(t, e)]_vars

\* cancelled in the middle of an operation while another one waits in the queue
C13_Witness ==
    \E t \in stopped, a, b \in DOMAIN episodes :
        /\ episodes[a].status = "cancelled" /\ episodes[a].worker = t
        /\ episodes[b].status = "queued" /\ same_group(a, b)
        /\ episode_queues[tasks[t].group_id].queue = <<b>>
        /\ ~active(tasks[t].group_id)

\* the number of places where episode e currently is: in a queue or in a worker
places(e) ==
    Cardinality({g \in DOMAIN episode_queues :
                    \E i \in DOMAIN episode_queues[g].queue : episode_queues[g].queue[i] = e})
    + Cardinality({t \in DOMAIN tasks : tasks[t].process_func = e})

\* C14: every operation is started at most once: a started operation never
\* returns to the queue, never becomes queued or running again after it ended
\* (by raising, returning or cancellation), and is held by one worker only.
C14_AtMostOnce ==
    /\ [](\A e \in DOMAIN episodes :
             /\ places(e) <= 1
             /\ (episodes[e].status = "queued") <=> (episodes[e].worker = 0)
             /\ finished(e) => places(e) = 0
             /\ \A g \in DOMAIN episode_queues :
                   \A i, j \in DOMAIN episode_queues[g].queue :
                       episode_queues[g].queue[i] = episode_queues[g].queue[j] => i = j)
    /\ [][\A e \in DOMAIN episodes :
             /\ started(e) => /\ episodes'[e].status # "queued"
                              /\ episodes'[e].worker = episodes[e].worker
             /\ finished(e) => episodes'[e] = episodes[e]]_vars

\* an operation that raised and one that was interrupted by cancellation
C14_Witness ==
    \E a, b \in DOMAIN episodes :
        /\ episodes[a].status = "error"
        /\ episodes[b].status = "cancelled"

\* episode e ends in this step by returning or raising
completes(e) ==
    episodes[e].status = "running" /\ episodes'[e].status \in {"ok", "error"}

\* C15: a queue loses items only one at a time at its head, and only to a
\* worker that starts the item; each operation that ends, by success or by
\* failure alike, marks exactly one completion and its worker takes at most
\* the next item.
C15_DepthDecreasesByOne ==
    [][\A g \in DOMAIN episode_queues :
          LET q  == episode_queues[g]
              q2 == episode_queues'[g]
          IN /\ Len(q2.queue) >= Len(q.queue) - 1
             /\ Len(q2.queue) < Len(q.queue) =>
                   /\ q2.queue = Tail(q.queue)
                   /\ \E t \in DOMAIN tasks : starts(t, Head(q.queue))
             /\ \A e \in DOMAIN episodes :
                   (episodes[e].group_id = g /\ completes(e)) =>
                       /\ q2.unfinished_tasks = q.unfinished_tasks - 1
                       /\ q2.queue = IF q.queue = <<>> THEN <<>> ELSE Tail(q.queue)
             /\ q2.unfinished_tasks >= q.unfinished_tasks - 1]_vars

\* a failed and a successful operation were each followed by one dequeue
C15_Witness ==
    \E a, b \in DOMAIN episodes :
        /\ a < b /\ same_group(a, b)
        /\ episodes[a].status = "error"
        /\ episodes[b].status = "ok"
        /\ episode_queues[episodes[a].group_id].unfinished_tasks = 0
        /\ episode_queues[episodes[a].group_id].queue = <<>>

\* worker task t has entered its loop and has not stopped
running_worker(t) == tasks[t].pc \in {"get", "woken", "process_func"}

\* worker task t parks on the empty queue in this step
parks(t) == tasks[t].pc # "get" /\ tasks'[t].pc = "get"

\* C16: a started worker persists.  A step in which an operation returns or
\* raises, a worker parks on the empty queue, or a submission is handled stops
\* no worker and clears no flag; and, as long as no worker of the key was
\* cancelled, a submission for a key whose worker is running spawns no worker
\* and wakes the parked one, which then takes the head of the queue.
C16_StartedWorkerPersists ==
    [][/\ ( \/ \E e \in DOMAIN episodes : completes(e)
            \/ \E t \in DOMAIN tasks : parks(t)
            \/ Len(responses') > Len(responses) )
          => /\ {t \in DOMAIN tasks' : tasks'[t].pc = "done"} = stopped
             /\ \A g \in Groups : active(g) => dict_get(queue_workers', g, FALSE)
       /\ \A g \in Groups :
             ( /\ accepted_step /\ responses'[Len(responses')].group_id = g
               /\ stopped_of(g) = {}
               /\ \E t \in DOMAIN tasks : tasks[t].group_id = g /\ running_worker(t) )
             => /\ Len(tasks') = Len(tasks)
                /\ \A t \in DOMAIN tasks :
                      (tasks[t].group_id = g /\ tasks[t].pc = "get"
                         /\ t = Head(episode_queues[g].getters))
                      => tasks'[t].pc = "woken"
       /\ \A t \in DOMAIN tasks :
             ( /\ tasks[t].pc = "woken" /\ tasks'[t].pc \notin {"woken", "done"}
               /\ episode_queues[tasks[t].group_id].queue # <<>> )
             => starts(t, Head(episode_queues[tasks[t].group_id].queue))]_vars

\* the worker drained its queue, parked, and was woken by a later submission
\* that spawned nothing
C16_Witness ==
    \E t \in DOMAIN tasks, a, b \in DOMAIN episodes :
        /\ a < b /\ same_group(a, b) /\ tasks[t].group_id = episodes[a].group_id
        /\ episodes[a].status \in {"ok", "error"} /\ episodes[a].worker = t
        /\ tasks[t].pc = "woken"
        /\ episodes[b].status = "queued"
        /\ Len(tasks) = 1
        /\ active(tasks[t].group_id)

\* C17: the table of queues only grows: a key has an entry exactly from its
\* first accepted submission on, no step removes an entry, and the entry is
\* never replaced by a new queue (it keeps holding the key's pending
\* operations and its count of unfinished ones).
C17_QueueTableMonotone ==
    /\ [][\A g \in DOMAIN episode_queues : g \in DOMAIN episode_queues']_vars
    /\ [](/\ DOMAIN episode_queues = {g \in Groups : submitted(g) # {}}
          /\ \A g \in DOMAIN episode_queues :
                /\ {episode_queues[g].queue[i] : i \in DOMAIN episode_queues[g].queue}
                      = {e \in submitted(g) : ~started(e)}
                /\ episode_queues[g].unfinished_tasks
                      = Cardinality({e \in submitted(g) : ~finished(e)}))

\* the entry of a key outlives the stop of its worker and its operations
C17_Witness ==
    \E g \in DOMAIN episode_queues :
        /\ stopped_of(g) # {}
        /\ workers(g) = {}
        /\ \A e \in submitted(g) : finished(e)
        /\ Cardinality(submitted(g)) = 2

\* ---- DriverFactory properties ----
\* two strings are the same up to the case of their letters
same_ignoring_case(a, b) ==
    /\ Len(a) = Len(b)
    /\ \A i \in DOMAIN a :
          \/ a[i] = b[i]
          \/ \E k \in DOMAIN Upper : {a[i], b[i]} = {Upper[k], Lower[k]}

\* the step is a create_driver call
create_driver_step == Len(drivers') = Len(drivers) + 1

\* GRAPHITI_DB_TYPE names the backend b at the time of the call
selects(b) == "GRAPHITI_DB_TYPE" \in DOMAIN environ /\ same_ignoring_case(environ["GRAPHITI_DB_TYPE"], b)

is_driver(r) == r.kind \in {"Neo4jDriver", "FalkorDriver"}

\* C19: a create_driver call made while GRAPHITI_DB_TYPE names neither neo4j
\* nor falkordb raises ValueError 'Unsupported database type' and constructs
\* no driver; a call made while Neo4j is selected (variable unset or naming
\* neo4j) with uri None raises ValueError 'uri must be provided' and
\* constructs no driver; each of the two messages appears in exactly its own
\* case, so the two outcomes can be told apart.
C19_ErrorOutcomes ==
    [][ create_driver_step =>
            LET r == drivers'[Len(drivers')]
                neo4j_selected == "GRAPHITI_DB_TYPE" \notin DOMAIN environ \/ selects(neo4j)
                unsupported == ~neo4j_selected /\ ~selects(falkordb)
                uri_missing == neo4j_selected /\ last_call'.uri = "None"
            IN  /\ unsupported =>
                      r.kind = "ValueError" /\ r.message.text = "Unsupported database type" /\ ~is_driver(r)
                /\ uri_missing =>
                      /\ r.kind = "ValueError"
                      /\ r.message.text = "uri must be provided when using Neo4j driver"
                      /\ ~is_driver(r)
                /\ r.message.text = "Unsupported database type" => unsupported
                /\ r.message.text = "uri must be provided when using Neo4j driver" => uri_missing
      ]_vars

\* one call failed for an unsupported name, a later one for the missing uri
C19_Witness ==
    /\ Len(drivers) = 2
    /\ drivers[1].message.text = "Unsupported database type"
    /\ drivers[1].message.db_type = <<"i", "n", "v", "a", "l", "i", "d">>
    /\ drivers[2].message.text = "uri must be provided when using Neo4j driver"
    /\ last_call.uri = "None"

\* ---- FalkorDriver.execute_query properties ----
\* execute_query has returned (it did not raise)
returned == last_query.called /\ last_query.outcome.type # "raise"

\* C20: whenever FalkorDriver.execute_query returns without raising, its
\* result is a triple (rows, column names, summary): rows is a sequence with
\* one mapping per row of the backend, each keyed by exactly the column names,
\* and summary is null.
C20_UniformQueryResult ==
    returned =>
        /\ last_query.outcome.type = "tuple"
        /\ Len(last_query.outcome.records) = Len(last_query.reply.result_set)
        /\ \A r \in DOMAIN last_query.outcome.records :
              DOMAIN last_query.outcome.records[r]
                  = {last_query.outcome.header[i] : i \in DOMAIN last_query.outcome.header}
        /\ last_query.outcome.summary = "None"

\* ---- FalkorDriver construction properties ----
\* the step is a FalkorDriver(...) call that is not given a client
falkor_driver_step ==
    /\ Len(falkor_drivers') = Len(falkor_drivers) + 1
    /\ last_call'.what = "FalkorDriver"
    /\ last_call'.falkor_db = None

\* the first of the given optional values that is not None, None when there is none
first_given(values) ==
    IF \E i \in DOMAIN values : values[i] # None
    THEN values[CHOOSE i \in DOMAIN values : values[i] # None /\ \A k \in 1..(i - 1) : values[k] = None]
    ELSE None

\* a password that is given and not empty
truthy(password) == IF password # None /\ password[1] # <<>> THEN password ELSE None

\* the name FalkorDB has for database number n
database_name(n) == IF n = 0 THEN default_db ELSE str(n)

\* the value the environment gives an integer parameter is usable
env_int_usable(name, low) ==
    name \in DOMAIN environ => int(environ[name]).ok /\ int(environ[name]).value >= low /\ int(environ[name]).value <= 65535

\* C21: FalkorDriver(...) without a ready client resolves host, port, password
\* and database one by one: the direct argument if given, else the field of
\* the config instance if one is passed, else the FALKORDB_* variable, else
\* the default (localhost, 6379, no password, default_db).  With a config
\* instance the environment plays no part.  username becomes the password
\* only when none of the levels gives a password.  The driver is built
\* whenever every parameter has a usable value at its highest given level.
C21_ParameterPrecedence ==
    [][ falkor_driver_step =>
            LET c == last_call'
                r == falkor_drivers'[Len(falkor_drivers')]
                from_config == c.config # None
                host == first_given(<<c.host,
                                      IF from_config THEN Some(c.config[1].host) ELSE os_getenv_optional("FALKORDB_HOST"),
                                      Some(localhost)>>)
                port == first_given(<<c.port,
                                      IF from_config THEN Some(c.config[1].port)
                                      ELSE IF "FALKORDB_PORT" \in DOMAIN environ
                                           THEN Some(int(environ["FALKORDB_PORT"]).value) ELSE None,
                                      Some(6379)>>)
                password == first_given(<<c.password,
                                          IF from_config THEN truthy(c.config[1].password)
                                          ELSE truthy(os_getenv_optional("FALKORDB_PASSWORD")),
                                          c.username>>)
                database == first_given(<<c.database,
                                          IF from_config THEN Some(database_name(c.config[1].database))
                                          ELSE IF "FALKORDB_DATABASE" \in DOMAIN environ
                                               THEN Some(database_name(int(environ["FALKORDB_DATABASE"]).value))
                                               ELSE None,
                                          Some(default_db)>>)
                resolvable ==
                    \/ from_config
                    \/ /\ c.port # None \/ env_int_usable("FALKORDB_PORT", 1)
                       /\ c.database # None \/ env_int_usable("FALKORDB_DATABASE", 0)
            IN  resolvable =>
                    /\ r.ok
                    /\ r.client.kwargs["host"] = host[1]
                    /\ r.client.kwargs["port"] = port[1]
                    /\ IF password = None THEN "password" \notin DOMAIN r.client.kwargs
                       ELSE "password" \in DOMAIN r.client.kwargs /\ r.client.kwargs["password"] = password[1]
                    /\ r.database = database[1]
      ]_vars

\* the step is a clone call
clone_step ==
    /\ Len(falkor_drivers') = Len(falkor_drivers) + 1
    /\ last_call'.what = "clone"

\* C22 as stated: clone(database) returns a new driver that shares the client
\* of the original and has the given database as its default, whatever the
\* database name is, and leaves the original as it was.
C22_CloneAnyDatabase ==
    [][ clone_step =>
            LET cloned == falkor_drivers'[Len(falkor_drivers')]
                original == falkor_drivers[last_call'.self]
            IN  /\ cloned.ok
                /\ cloned.client = original.client
                /\ cloned.database = last_call'.database[1]
                /\ SubSeq(falkor_drivers', 1, Len(falkor_drivers)) = falkor_drivers
      ]_vars

\* C22: clone(database) with a database name that is not empty returns a new
\* driver that shares the client of the original and has the given database
\* as its default; with the empty name the clone's default is 'default_db'.
\* In both cases the original driver keeps its client and its default database.
C22_CloneSharesClient ==
    [][ clone_step =>
            LET cloned == falkor_drivers'[Len(falkor_drivers')]
                original == falkor_drivers[last_call'.self]
                database == last_call'.database[1]
            IN  /\ cloned.ok
                /\ cloned.client = original.client
                /\ cloned.database = IF database # <<>> THEN database ELSE default_db
                /\ SubSeq(falkor_drivers', 1, Len(falkor_drivers)) = falkor_drivers
      ]_vars

\* a driver built from the environment was cloned for another database:
\* the two share the client and differ in the default database
C22_Witness ==
    /\ Len(falkor_drivers) = 2
    /\ last_call.what = "clone" /\ last_call.self = 1
    /\ falkor_drivers[1].ok /\ falkor_drivers[1].client.id = 1
    /\ falkor_drivers[2].client = falkor_drivers[1].client
    /\ falkor_drivers[2].database = last_call.database[1]
    /\ falkor_drivers[2].database # falkor_drivers[1].database

\* ---- FalkorDBConfig properties ----
\* the step is a FalkorDBConfig.from_env() call
from_env_step == last_config' # last_config /\ last_config'.how = "from_env"

\* FALKORDB_CONNECTION_STRING is set to a string that is not empty
connection_string_set ==
    "FALKORDB_CONNECTION_STRING" \in DOMAIN environ /\ environ["FALKORDB_CONNECTION_STRING"] # <<>>

\* C23: FalkorDBConfig.from_env with FALKORDB_CONNECTION_STRING set and not
\* empty gives what the connection string alone gives: host, port, database
\* and password are those of the string, whatever FALKORDB_HOST, _PORT,
\* _DATABASE and _PASSWORD hold.  Otherwise, when the individual port and
\* database values are integers the config accepts, each field is the
\* individual variable, or its default (localhost, 6379, 0, no password)
\* when the variable is unset.
C23_FromEnvSources ==
    [][ from_env_step =>
            LET config == last_config'.outcome
                port == int(os_getenv("FALKORDB_PORT", str(6379)))
                database == int(os_getenv("FALKORDB_DATABASE", str(0)))
            IN  /\ connection_string_set =>
                      config = from_connection_string(environ["FALKORDB_CONNECTION_STRING"])
                /\ ~connection_string_set /\ port.ok /\ database.ok
                      /\ 1 <= port.value /\ port.value <= 65535 /\ database.value >= 0 =>
                      /\ config.ok
                      /\ config.host = (IF "FALKORDB_HOST" \in DOMAIN environ
                                        THEN environ["FALKORDB_HOST"] ELSE localhost)
                      /\ config.port = (IF "FALKORDB_PORT" \in DOMAIN environ THEN port.value ELSE 6379)
                      /\ config.database = (IF "FALKORDB_DATABASE" \in DOMAIN environ
                                            THEN database.value ELSE 0)
                      /\ config.password = (IF "FALKORDB_PASSWORD" \in DOMAIN environ
                                            THEN Some(environ["FALKORDB_PASSWORD"]) ELSE None)
      ]_vars

\* from_env was called with the connection string and every individual
\* variable set: the config holds the values of the string
C23_Witness ==
    /\ last_config.called /\ last_config.how = "from_env"
    /\ DOMAIN environ = FalkorEnvNames
    /\ environ["FALKORDB_CONNECTION_STRING"] = <<"r", "e", "d", "i", "s", ":", "/", "/", "H", "1", ":", "6", "3", "8", "0", "/", "1">>
    /\ last_config.outcome.ok
    /\ last_config.outcome.host = <<"h", "1">>
    /\ last_config.outcome.port = 6380
    /\ last_config.outcome.database = 1
    /\ last_config.outcome.password = None
    /\ environ["FALKORDB_HOST"] # last_config.outcome.host

\* the step builds a config: directly, from the environment or from a connection string
new_config_step == last_config' # last_config

\* C24: FalkorDBConfig(...) with a port outside 1..65535 or a database number
\* below 0 fails with a validation error, and every config that is built,
\* directly, from the environment or from a connection string, has
\* 1 <= port <= 65535 and database >= 0.
C24_ConfigBounds ==
    [][ new_config_step =>
            LET c == last_config'
            IN  /\ c.how = "FalkorDBConfig" /\ (c.port < 1 \/ c.port > 65535 \/ c.database < 0)
                      => c.outcome = Raised("ValidationError")
                /\ c.outcome.ok
                      => /\ 1 <= c.outcome.port /\ c.outcome.port <= 65535
                         /\ c.outcome.database >= 0
      ]_vars

\* a config was asked for with port 65536 and valid other fields: the
\* construction failed with a validation error
C24_Witness ==
    /\ last_config.called /\ last_config.how = "FalkorDBConfig"
    /\ last_config.port = 65536 /\ last_config.database = 0
    /\ last_config.outcome = Raised("ValidationError")

\* ---- further properties of the episode queues ----
\* the worker loops of group g that have started and not yet stopped
running_workers(g) == {t \in workers(g) : tasks[t].pc \in {"get", "woken", "process_func"}}

\* C25: in every reachable state queue_workers[group_id] is true exactly when
\* a worker loop of that group_id has started and not yet stopped; the flag
\* is never false while a worker of the key is still running.
C25_FlagAgreesWithWorkers ==
    \A g \in Groups : dict_get(queue_workers, g, FALSE) = (running_workers(g) # {})

\* the operations of group g that have ended: returned, raised or cancelled in mid-execution
finished_of(g) == {e \in submitted(g) : finished(e)}

\* worker task t is cancelled in this step while it waits on the queue
cancelled_waiting(t) == tasks[t].pc \in {"get", "woken"} /\ tasks'[t].pc = "done"

\* C26: for each group_id the queue's count of unfinished tasks always equals
\* the operations enqueued minus the operations that ended (by success, by
\* raising or by cancellation in mid-execution), so it is never negative and
\* task_done is never called more often than put; each ending of an
\* operation lowers the count by exactly one, and a cancellation that arrives
\* while the worker waits on the queue leaves the count as it is.
C26_CompletionAccounting ==
    [][ /\ \A g \in DOMAIN episode_queues' :
              /\ episode_queues'[g].unfinished_tasks
                    = Cardinality(submitted(g)') - Cardinality(finished_of(g)')
              /\ episode_queues'[g].unfinished_tasks >= 0
        /\ \A e \in DOMAIN episodes :
              ~finished(e) /\ finished(e)' =>
                  episode_queues'[episodes[e].group_id].unfinished_tasks
                      = episode_queues[episodes[e].group_id].unfinished_tasks - 1
        /\ \A t \in DOMAIN tasks :
              cancelled_waiting(t) =>
                  episode_queues'[tasks[t].group_id].unfinished_tasks
                      = episode_queues[tasks[t].group_id].unfinished_tasks
      ]_vars

\* two operations of one group were submitted, one was cancelled in
\* mid-execution and the other has not ended: one task is unfinished
C26_Witness ==
    \E g \in DOMAIN episode_queues :
        /\ Cardinality(submitted(g)) = 2
        /\ \E e \in submitted(g) : episodes[e].status = "cancelled"
        /\ Cardinality(finished_of(g)) = 1
        /\ episode_queues[g].unfinished_tasks = 1

\* the workers of group g that have started an operation and have stopped since
stopped_after_work(g) == {t \in stopped_of(g) : \E e \in DOMAIN episodes : episodes[e].worker = t}

\* C27: once a worker of a group_id has stopped, an operation of that key is
\* started only by a worker that a submission made after the stop has
\* spawned: the operations left in the queue stay unexecuted until another
\* submission for the key arrives.  A worker task is created only in a step
\* in which add_memory accepts a submission, and it is a worker of the
\* submitted key.
C27_StrandedUntilSubmission ==
    [][ /\ \A g \in Groups : \A t \in DOMAIN tasks : \A e \in submitted(g) :
              (stopped_after_work(g) # {} /\ starts(t, e)) =>
                  tasks[t].stops_seen >= Cardinality(stopped_of(g))
        /\ Len(tasks') # Len(tasks) =>
              /\ accepted_step
              /\ Len(tasks') = Len(tasks) + 1
              /\ tasks'[Len(tasks')].group_id = responses'[Len(responses')].group_id
      ]_vars

\* an add_memory call returns in this step
add_memory_step == Len(responses') = Len(responses) + 1

\* C28: add_memory called while the Graphiti client is not initialised
\* returns an ErrorResponse and changes neither episode_queues nor
\* queue_workers: no queue is created, nothing is enqueued, no worker task
\* is created.
C28_RejectedWithoutEffect ==
    [][ add_memory_step /\ graphiti_client = "None" =>
            /\ responses'[Len(responses')].kind = "ErrorResponse"
            /\ UNCHANGED <<episode_queues, queue_workers, tasks, episodes>>
      ]_vars

\* a submission was rejected before the client was initialised, a later one
\* for the same key was accepted: only the second one left a queue entry
C28_Witness ==
    /\ Len(responses) = 2
    /\ responses[1].kind = "ErrorResponse"
    /\ responses[2].kind = "SuccessResponse"
    /\ responses[2].group_id = responses[1].group_id
    /\ responses[2].position = 1
    /\ Len(episodes) = 1
    /\ Len(tasks) = 1

\* the text of the error the backend raised has 'already indexed' in it
mentions_already_indexed ==
    \E i \in 1..(Len(last_query.reply.error) - 1) :
        last_query.reply.error[i] = "already" /\ last_query.reply.error[i + 1] = "indexed"

\* C29: FalkorDriver.execute_query swallows exactly the backend errors whose
\* message contains 'already indexed': for those it returns without raising;
\* every other backend error is raised to the caller unchanged; and without
\* a backend error nothing is raised.
C29_SwallowsExactlyAlreadyIndexed ==
    last_query.called =>
        /\ last_query.reply.raised /\ mentions_already_indexed
              => last_query.outcome.type # "raise"
        /\ last_query.reply.raised /\ ~mentions_already_indexed
              => last_query.outcome = [type |-> "raise", error |-> last_query.reply.error]
        /\ ~last_query.reply.raised => last_query.outcome.type # "raise"

\* the backend refused to create an index that exists and the call returned
C29_Witness ==
    /\ last_query.called
    /\ last_query.reply.raised
    /\ last_query.reply.error = <<"Attribute", "name", "is", "already", "indexed">>
    /\ last_query.outcome.type = "NoneType"

\* ---- initialisation of the MCP server ----
\* C30: initialize_graphiti with db_type 'falkordb' and FALKORDB_URL unset
\* goes on with the default redis://localhost:6379 and creates the Graphiti
\* client: it never ends with the error that FALKORDB_URL is missing, and
\* a run that has not ended with another error leaves the client set.
C30_FalkorDefaultUrl ==
    /\ init_result # "ValueError: FALKORDB_URL must be provided when using FalkorDB"
    /\ init_result = "ok" => graphiti_client = "Graphiti"

====
